---- MODULE Spec2Model ----
(***************************************************************************)
(* Model of the civium zk-prover crate: statement inputs and their         *)
(* validation (types.rs), the native constraint circuits (circuits.rs),    *)
(* the prover (prover.rs) and the verifier (verifier.rs).                  *)
(*                                                                         *)
(* A ComplianceProver and a ComplianceVerifier are shared by a set of      *)
(* caller threads.  A prove call runs in four steps (entry, circuit build, *)
(* setup, proof generation) so that calls of different threads interleave; *)
(* a verify call is one step.  The SNARK backend, the circom toolchain and *)
(* the file system are the environment: their outcomes are chosen          *)
(* nondeterministically.  Spec is one caller using the whole interface,    *)
(* SpecConc is NumThreads callers proving concurrently.                    *)
(***************************************************************************)
EXTENDS Integers, Sequences, FiniteSets, TLC

VARIABLES
    disk,       \* the set of paths that exist on the file system
    badjson,    \* the existing verification-key files that are not valid JSON
    unreadable, \* the existing verification-key paths that cannot be read as
                \* text: a directory, or a file that is not UTF-8
    prover,     \* the result of ComplianceProver::new
    verifier,   \* the result of ComplianceVerifier::new
    pc,         \* pc[t]: where thread t is inside its current call
    call,       \* call[t]: the operation and arguments of t's current/last call
    ret,        \* ret[t]: what t's last finished call returned
    fx,         \* fx[t]: the external work t's current/last call has done
    setups,     \* setups[c]: how many times circuit_specific_setup ran for c
    probe       \* input and output of a pure function under examination

vars == <<disk, badjson, unreadable, prover, verifier, pc, call, ret, fx, setups, probe>>

(***************************************************************************)
(* Bounds of the model.                                                    *)
(***************************************************************************)
NumThreads == 2
MaxSetups == 2

Threads == 1..NumThreads

(***************************************************************************)
(* Option and Result values.                                               *)
(***************************************************************************)
None == [some |-> FALSE]
Some(v) == [some |-> TRUE, val |-> v]

OkUnit == [tag |-> "Ok"]
OkBool(b) == [tag |-> "Ok", bool |-> b]
OkValue(v) == [tag |-> "Ok", value |-> v]
Err(e) == [tag |-> "Err", err |-> e]
Panicked == [tag |-> "Panic"]
NoReturn == [tag |-> "None"]

IsOk(r) == r.tag = "Ok"
IsErr(r) == r.tag = "Err"
IsErrKind(r, k) == r.tag = "Err" /\ r.err.kind = k

(***************************************************************************)
(* error.rs: the ProverError variants that the modelled code constructs.   *)
(***************************************************************************)
CircuitNotFound(path) == [kind |-> "CircuitNotFound", path |-> path]
InvalidInput(field, value, expected) ==
    [kind |-> "InvalidInput", field |-> field, value |-> value, expected |-> expected]
ProofGenerationFailed == [kind |-> "ProofGenerationFailed"]
VerificationFailed == [kind |-> "VerificationFailed"]
InvalidProofFormat(reason) == [kind |-> "InvalidProofFormat", reason |-> reason]
Serialization == [kind |-> "Serialization"]
Io == [kind |-> "Io"]
WitnessError == [kind |-> "WitnessError"]
SetupError(reason) == [kind |-> "SetupError", reason |-> reason]
ScoreOutOfRange(score) == [kind |-> "ScoreOutOfRange", score |-> score]
ThresholdNotMet(score, threshold) ==
    [kind |-> "ThresholdNotMet", score |-> score, threshold |-> threshold]
InvalidTier(tier) == [kind |-> "InvalidTier", tier |-> tier]
ArkError == [kind |-> "ArkError"]

(***************************************************************************)
(* Strings are sequences of characters; a character is a one-character     *)
(* string.  The characters below are the ones the inputs are built from.   *)
(***************************************************************************)
Digits == <<"0", "1", "2", "3", "4", "5", "6", "7", "8", "9">>

IsDigit(ch) == \E i \in 1..10 : Digits[i] = ch
DigitValue(ch) == (CHOOSE i \in 1..10 : Digits[i] = ch) - 1

\* UTF-8 width of a character.  "U+00E9" and "U+20AC" name the characters
\* with those code points, which take two and three bytes.
Utf8Len(ch) == IF ch = "U+00E9" THEN 2 ELSE IF ch = "U+20AC" THEN 3 ELSE 1

RECURSIVE ByteLen(_)
ByteLen(s) == IF s = <<>> THEN 0 ELSE Utf8Len(Head(s)) + ByteLen(Tail(s))

\* str::is_char_boundary: offset 0, the end, or the start of a character.
IsCharBoundary(s, n) == \E k \in 0..Len(s) : ByteLen(SubSeq(s, 1, k)) = n

Min(a, b) == IF a < b THEN a ELSE b

\* The argument of the info! line of prove_*: &entity_hash[..8.min(len)].
\* Slicing a str at an offset inside a character panics.
LogPrefixPanics(entity_hash) ==
    ~IsCharBoundary(entity_hash, Min(8, ByteLen(entity_hash)))

\* BigUint::from_str_radix(s, 10) after the optional leading "+" is removed:
\* the value of the digits, "_" being skipped.
RECURSIVE DecimalValue(_, _)
DecimalValue(s, acc) ==
    IF s = <<>> THEN acc
    ELSE IF Head(s) = "_" THEN DecimalValue(Tail(s), acc)
    ELSE DecimalValue(Tail(s), 10 * acc + DigitValue(Head(s)))

\* BigUint::parse_bytes(s.as_bytes(), 10): None for an empty string, a
\* leading "_" or any character that is no decimal digit or "_".
parse_bytes(str) ==
    LET s == IF str # <<>> /\ Head(str) = "+"
                  /\ ~(Len(str) > 1 /\ str[2] = "+")
             THEN Tail(str) ELSE str
    IN  IF s = <<>> \/ Head(s) = "_"
           \/ \E i \in 1..Len(s) : ~IsDigit(s[i]) /\ s[i] # "_"
        THEN None
        ELSE Some(DecimalValue(s, 0))

\* unwrap_or_else with the default one.
unwrap_or_one(opt) == IF opt.some THEN opt.val ELSE 1

\* .unwrap_or_else(|| BigUint::from(0u64))
unwrap_or_zero(opt) == IF opt.some THEN opt.val ELSE 0

(***************************************************************************)
(* types.rs                                                                *)
(***************************************************************************)
MAX_SCORE == 10000

TIER_1_MIN == 9500
TIER_2_MIN == 8500
TIER_3_MIN == 7000
TIER_4_MIN == 5000
TIER_5_MIN == 0

\* ThresholdInput::validate with `<=` for `<` in the threshold comparison.
ThresholdInput_validate_strict(self) ==
    IF self.score > MAX_SCORE
    THEN Err(ScoreOutOfRange(self.score))
    ELSE IF self.threshold > MAX_SCORE
    THEN Err(InvalidInput("threshold", ToString(self.threshold),
                          "0-" \o ToString(MAX_SCORE)))
    ELSE IF self.score <= self.threshold
    THEN Err(ThresholdNotMet(self.score, self.threshold))
    ELSE OkUnit

\* ThresholdInput::validate with the first two checks in the other order.
ThresholdInput_validate_reordered(self) ==
    IF self.threshold > MAX_SCORE
    THEN Err(InvalidInput("threshold", ToString(self.threshold),
                          "0-" \o ToString(MAX_SCORE)))
    ELSE IF self.score > MAX_SCORE
    THEN Err(ScoreOutOfRange(self.score))
    ELSE IF self.score < self.threshold
    THEN Err(ThresholdNotMet(self.score, self.threshold))
    ELSE OkUnit

\* ThresholdInput::validate
ThresholdInput_validate(self) ==
    IF self.score > MAX_SCORE
    THEN Err(ScoreOutOfRange(self.score))
    ELSE IF self.threshold > MAX_SCORE
    THEN Err(InvalidInput("threshold", ToString(self.threshold),
                          "0-" \o ToString(MAX_SCORE)))
    ELSE IF self.score < self.threshold
    THEN Err(ThresholdNotMet(self.score, self.threshold))
    ELSE OkUnit

\* ThresholdInput::to_circuit_input
ThresholdInput_to_circuit_input(self) ==
    << <<"threshold", <<self.threshold>> >>,
       <<"entityHash", <<unwrap_or_zero(parse_bytes(self.entity_hash))>> >>,
       <<"score", <<self.score>> >>,
       <<"salt", <<unwrap_or_zero(parse_bytes(self.salt))>> >> >>

\* RangeInput::validate with `<=` for `<` in the lower comparison.
RangeInput_validate_exclusive(self) ==
    IF self.score > MAX_SCORE
    THEN Err(ScoreOutOfRange(self.score))
    ELSE IF self.min_score > self.max_score
    THEN Err(InvalidInput("min_score", ToString(self.min_score),
                          "<= max_score (" \o ToString(self.max_score) \o ")"))
    ELSE IF self.score <= self.min_score \/ self.score > self.max_score
    THEN Err(InvalidInput("score", ToString(self.score),
                          "[" \o ToString(self.min_score) \o ", "
                              \o ToString(self.max_score) \o "]"))
    ELSE OkUnit

\* RangeInput::validate with the first two checks in the other order.
RangeInput_validate_reordered(self) ==
    IF self.min_score > self.max_score
    THEN Err(InvalidInput("min_score", ToString(self.min_score),
                          "<= max_score (" \o ToString(self.max_score) \o ")"))
    ELSE IF self.score > MAX_SCORE
    THEN Err(ScoreOutOfRange(self.score))
    ELSE IF self.score < self.min_score \/ self.score > self.max_score
    THEN Err(InvalidInput("score", ToString(self.score),
                          "[" \o ToString(self.min_score) \o ", "
                              \o ToString(self.max_score) \o "]"))
    ELSE OkUnit

\* RangeInput::validate
RangeInput_validate(self) ==
    IF self.score > MAX_SCORE
    THEN Err(ScoreOutOfRange(self.score))
    ELSE IF self.min_score > self.max_score
    THEN Err(InvalidInput("min_score", ToString(self.min_score),
                          "<= max_score (" \o ToString(self.max_score) \o ")"))
    ELSE IF self.score < self.min_score \/ self.score > self.max_score
    THEN Err(InvalidInput("score", ToString(self.score),
                          "[" \o ToString(self.min_score) \o ", "
                              \o ToString(self.max_score) \o "]"))
    ELSE OkUnit

\* RangeInput::to_circuit_input
RangeInput_to_circuit_input(self) ==
    << <<"minScore", <<self.min_score>> >>,
       <<"maxScore", <<self.max_score>> >>,
       <<"entityHash", <<unwrap_or_zero(parse_bytes(self.entity_hash))>> >>,
       <<"score", <<self.score>> >>,
       <<"salt", <<unwrap_or_zero(parse_bytes(self.salt))>> >> >>

\* TierInput::tier_bounds with tier 2 reaching up to TIER_1_MIN itself.
TierInput_tier_bounds_overlapping(tier) ==
    CASE tier = 1 -> <<TIER_1_MIN, MAX_SCORE>>
      [] tier = 2 -> <<TIER_2_MIN, TIER_1_MIN>>
      [] tier = 3 -> <<TIER_3_MIN, TIER_2_MIN - 1>>
      [] tier = 4 -> <<TIER_4_MIN, TIER_3_MIN - 1>>
      [] tier = 5 -> <<TIER_5_MIN, TIER_4_MIN - 1>>
      [] OTHER -> <<0, 0>>

\* TierInput::tier_bounds
TierInput_tier_bounds(tier) ==
    CASE tier = 1 -> <<TIER_1_MIN, MAX_SCORE>>
      [] tier = 2 -> <<TIER_2_MIN, TIER_1_MIN - 1>>
      [] tier = 3 -> <<TIER_3_MIN, TIER_2_MIN - 1>>
      [] tier = 4 -> <<TIER_4_MIN, TIER_3_MIN - 1>>
      [] tier = 5 -> <<TIER_5_MIN, TIER_4_MIN - 1>>
      [] OTHER -> <<0, 0>>

\* TierInput::validate with the score limit tested before the tier.
TierInput_validate_reordered(self) ==
    IF self.score > MAX_SCORE
    THEN Err(ScoreOutOfRange(self.score))
    ELSE IF self.target_tier < 1 \/ self.target_tier > 5
    THEN Err(InvalidTier(self.target_tier))
    ELSE LET min == TierInput_tier_bounds(self.target_tier)[1]
             max == TierInput_tier_bounds(self.target_tier)[2]
         IN  IF self.score < min \/ self.score > max
             THEN Err(InvalidInput("score", ToString(self.score),
                          "tier " \o ToString(self.target_tier) \o " range ["
                              \o ToString(min) \o ", " \o ToString(max) \o "]"))
             ELSE OkUnit

\* TierInput::validate
TierInput_validate(self) ==
    IF self.target_tier < 1 \/ self.target_tier > 5
    THEN Err(InvalidTier(self.target_tier))
    ELSE IF self.score > MAX_SCORE
    THEN Err(ScoreOutOfRange(self.score))
    ELSE LET min == TierInput_tier_bounds(self.target_tier)[1]
             max == TierInput_tier_bounds(self.target_tier)[2]
         IN  IF self.score < min \/ self.score > max
             THEN Err(InvalidInput("score", ToString(self.score),
                          "tier " \o ToString(self.target_tier) \o " range ["
                              \o ToString(min) \o ", " \o ToString(max) \o "]"))
             ELSE OkUnit

\* TierInput::to_circuit_input
TierInput_to_circuit_input(self) ==
    << <<"targetTier", <<self.target_tier>> >>,
       <<"entityHash", <<unwrap_or_zero(parse_bytes(self.entity_hash))>> >>,
       <<"score", <<self.score>> >>,
       <<"salt", <<unwrap_or_zero(parse_bytes(self.salt))>> >> >>

(***************************************************************************)
(* circuits.rs: the native circuits.  A field element is written as the    *)
(* integer it stands for (a difference below zero as that negative         *)
(* integer).  A constraint system holds the assigned instance and witness  *)
(* variables, the values of the linear combinations registered with it and *)
(* the constraints a * b = c enforced on it.                               *)
(***************************************************************************)
\* ConstraintSystem::new: the instance starts with the constant one.
ConstraintSystem_new ==
    [instance |-> <<1>>, witness |-> <<>>, lcs |-> <<>>, constraints |-> <<>>]

\* FpVar::new_input
new_input(cs, value) == [cs EXCEPT !.instance = Append(@, value)]

\* FpVar::new_witness
new_witness(cs, value) == [cs EXCEPT !.witness = Append(@, value)]

\* `&a + &b` and `&a - &b` on FpVar: a new linear combination, no constraint.
new_lc(cs, value) == [cs EXCEPT !.lcs = Append(@, value)]

\* ConstraintSystem::is_satisfied: every enforced a * b = c holds.
is_satisfied(cs) ==
    \A i \in 1..Len(cs.constraints) :
        cs.constraints[i].a * cs.constraints[i].b = cs.constraints[i].c

\* ThresholdCircuit::new
ThresholdCircuit_new(threshold, entity_hash, score, salt) ==
    [threshold |-> threshold, entity_hash |-> entity_hash, score |-> score,
     salt |-> salt]

\* ThresholdCircuit::generate_constraints: the constraint system it leaves.
ThresholdCircuit_generate_constraints(self) ==
    LET cs1 == new_input(ConstraintSystem_new, self.threshold)
        cs2 == new_input(cs1, self.entity_hash)
        cs3 == new_witness(cs2, self.score)
        cs4 == new_witness(cs3, self.salt)
        \* diff = score - threshold
        cs5 == new_lc(cs4, self.score - self.threshold)
        \* upper_diff = MAX_SCORE - score
        cs6 == new_lc(cs5, MAX_SCORE - self.score)
        \* _commitment = score + salt + entity_hash
        cs7 == new_lc(cs6, self.score + self.salt)
    IN  new_lc(cs7, self.score + self.salt + self.entity_hash)

\* RangeCircuit::new
RangeCircuit_new(min_score, max_score, entity_hash, score, salt) ==
    [min_score |-> min_score, max_score |-> max_score,
     entity_hash |-> entity_hash, score |-> score, salt |-> salt]

\* RangeCircuit::generate_constraints
RangeCircuit_generate_constraints(self) ==
    LET cs1 == new_input(ConstraintSystem_new, self.min_score)
        cs2 == new_input(cs1, self.max_score)
        cs3 == new_input(cs2, self.entity_hash)
        cs4 == new_witness(cs3, self.score)
        cs5 == new_witness(cs4, self.salt)
        \* lower_diff, upper_diff, range_diff
        cs6 == new_lc(cs5, self.score - self.min_score)
        cs7 == new_lc(cs6, self.max_score - self.score)
        cs8 == new_lc(cs7, self.max_score - self.min_score)
        cs9 == new_lc(cs8, self.score + self.salt)
    IN  new_lc(cs9, self.score + self.salt + self.entity_hash)

\* TierCircuit::tier_bounds with the table of an earlier tier policy, in
\* which tier 2 began at 8000.
TierCircuit_tier_bounds_stale(tier) ==
    CASE tier = 1 -> <<9500, 10000>>
      [] tier = 2 -> <<8000, 9499>>
      [] tier = 3 -> <<7000, 7999>>
      [] tier = 4 -> <<5000, 6999>>
      [] tier = 5 -> <<0, 4999>>
      [] OTHER -> <<0, 0>>

\* TierCircuit::tier_bounds: the circuit's own table, written as numbers.
TierCircuit_tier_bounds(tier) ==
    CASE tier = 1 -> <<9500, 10000>>
      [] tier = 2 -> <<8500, 9499>>
      [] tier = 3 -> <<7000, 8499>>
      [] tier = 4 -> <<5000, 6999>>
      [] tier = 5 -> <<0, 4999>>
      [] OTHER -> <<0, 0>>

\* TierCircuit::new
TierCircuit_new(target_tier, entity_hash, score, salt) ==
    [target_tier |-> target_tier, entity_hash |-> entity_hash, score |-> score,
     salt |-> salt]

\* TierCircuit::generate_constraints
TierCircuit_generate_constraints(self) ==
    LET cs1 == new_input(ConstraintSystem_new, self.target_tier)
        cs2 == new_input(cs1, self.entity_hash)
        cs3 == new_witness(cs2, self.score)
        cs4 == new_witness(cs3, self.salt)
        cs5 == new_lc(cs4, self.score + self.salt)
    IN  new_lc(cs5, self.score + self.salt + self.entity_hash)

(***************************************************************************)
(* prover.rs: circuit identifiers and the files of the build directory.    *)
(***************************************************************************)
Circuit == {"Threshold", "Range", "Tier"}

\* Circuit::file_name
file_name(circuit) ==
    CASE circuit = "Threshold" -> "compliance_threshold"
      [] circuit = "Range" -> "range_proof"
      [] circuit = "Tier" -> "tier_membership"

\* The build directory the prover and the verifier were constructed with.
BuildDir == "build"

\* format!("{}/{}/{}_js/{}.wasm", build_dir, name, name, name)
wasm_path(build_dir, name) ==
    build_dir \o "/" \o name \o "/" \o name \o "_js/" \o name \o ".wasm"

\* format!("{}/{}/{}.r1cs", build_dir, name, name)
r1cs_path(build_dir, name) == build_dir \o "/" \o name \o "/" \o name \o ".r1cs"

\* format!("{}/{}/proving_key.zkey", build_dir, name)
zkey_path(build_dir, name) == build_dir \o "/" \o name \o "/proving_key.zkey"

\* format!("{}/{}/verification_key.json", build_dir, name)
vkey_path(build_dir, name) == build_dir \o "/" \o name \o "/verification_key.json"

\* Path::new(p).exists()
exists(p) == p \in disk

\* A complete build directory: the directory and every file in it.
AllFiles ==
    {BuildDir} \cup
    UNION {{wasm_path(BuildDir, file_name(c)), r1cs_path(BuildDir, file_name(c)),
            zkey_path(BuildDir, file_name(c)), vkey_path(BuildDir, file_name(c))}
           : c \in Circuit}

VKeyFiles == {vkey_path(BuildDir, file_name(c)) : c \in Circuit}

\* The file systems the model starts from: the complete build directory, the
\* build directory with the files of one role missing for every circuit, and
\* no build directory at all.
DiskConfigs ==
    {AllFiles,
     AllFiles \ {wasm_path(BuildDir, file_name(c)) : c \in Circuit},
     AllFiles \ {r1cs_path(BuildDir, file_name(c)) : c \in Circuit},
     AllFiles \ {zkey_path(BuildDir, file_name(c)) : c \in Circuit},
     AllFiles \ VKeyFiles,
     {}}

\* ComplianceProver::new
ComplianceProver_new(build_dir) ==
    IF ~exists(build_dir)
    THEN Err(CircuitNotFound(build_dir))
    ELSE OkValue([build_dir |-> build_dir, threshold_pk |-> None,
                  range_pk |-> None, tier_pk |-> None])

\* The cache slot of ComplianceProver for a circuit.
cached_pk(p, circuit) ==
    CASE circuit = "Threshold" -> p.threshold_pk
      [] circuit = "Range" -> p.range_pk
      [] circuit = "Tier" -> p.tier_pk

\* ComplianceVerifier::new
ComplianceVerifier_new(build_dir) ==
    IF ~exists(build_dir)
    THEN Err(CircuitNotFound(build_dir))
    ELSE OkValue([build_dir |-> build_dir, threshold_vk |-> None,
                  range_vk |-> None, tier_vk |-> None])

(***************************************************************************)
(* The external SNARK backend and circom toolchain.                        *)
(***************************************************************************)
\* The signals of a signal map that the circuits declare public.
PrivateSignals == {"score", "salt"}

RECURSIVE public_values(_)
public_values(inputs) ==
    IF inputs = <<>> THEN <<>>
    ELSE IF Head(inputs)[1] \in PrivateSignals THEN public_values(Tail(inputs))
    ELSE Head(inputs)[2] \o public_values(Tail(inputs))

\* The value pushed for the signal of the given name.
signal(inputs, name) ==
    inputs[CHOOSE i \in 1..Len(inputs) : inputs[i][1] = name][2][1]

\* The hash of the commitment scheme on a list of field elements.  The
\* permutation is the hash library's; it is represented by a mixing of the
\* elements that depends on their values, their order and their number.
RECURSIVE Absorb(_, _)
Absorb(state, inputs) ==
    IF inputs = <<>> THEN state
    ELSE Absorb(((state * 31) + (Head(inputs) % 65521) + 1) % 65521,
                Tail(inputs))

Poseidon(inputs) == Absorb(Len(inputs), inputs)

\* The commitment a circuit computes from its signals:
\* Hash(score, salt, entity_hash).
circuit_commitment(inputs) ==
    Poseidon(<<signal(inputs, "score"), signal(inputs, "salt"),
               signal(inputs, "entityHash")>>)

\* The public signals of a circuit for a signal map: its public inputs in
\* the order of their allocation, then the commitment as the public output.
public_signals(inputs) == public_values(inputs) \o <<circuit_commitment(inputs)>>

\* CircomCircuit::get_public_inputs: Some once the witness is computed.
get_public_inputs(circom) ==
    IF circom.witness THEN Some(public_signals(circom.inputs)) ELSE None

\* Groth16::prove(&pk, circuit, rng): the proof is bound to the proving key
\* and to the assignment it was computed from.
Groth16_prove(pk, circom) ==
    [pk |-> pk, circuit |-> circom.circuit, inputs |-> circom.inputs]

\* Groth16::verify(&vk, public_inputs, &proof): Err for a key whose input
\* count does not fit, otherwise whether the pairing equation holds, which
\* it does for a proof made under the key's own setup for these inputs.
Groth16_verify(vk, public_inputs, proof) ==
    IF Len(public_inputs) # vk.n_public
    THEN Err([kind |-> "MalformedVerifyingKey"])
    ELSE OkBool(proof.pk = vk.pk /\ proof.circuit = vk.circuit
                /\ public_signals(proof.inputs) = public_inputs)

(***************************************************************************)
(* poseidon.rs: the commitment hasher.  A field element goes to the hash   *)
(* library as its decimal string and the result comes back the same way.   *)
(***************************************************************************)
\* The decimal digits of a number, without leading zeros.
RECURSIVE DecimalDigits(_)
DecimalDigits(n) ==
    IF n < 10 THEN <<Digits[n + 1]>>
    ELSE DecimalDigits(n \div 10) \o <<Digits[(n % 10) + 1]>>

\* fr_to_string / f.to_string()
fr_to_string(f) == DecimalDigits(f)

\* PoseidonFr::from_str: a decimal number without sign, separators or
\* leading zeros.
PoseidonFr_from_str(s) ==
    IF s = <<>> \/ (\E i \in 1..Len(s) : ~IsDigit(s[i]))
       \/ (Len(s) > 1 /\ Head(s) = "0")
    THEN None
    ELSE Some(DecimalValue(s, 0))

\* Poseidon::hash of the hash library: no hash of an empty list.
Poseidon_hash(hasher, inp) ==
    IF inp = <<>> THEN Err([kind |-> "WrongInputsLength"])
    ELSE OkValue(Poseidon(inp))

\* Fr::from_be_bytes_mod_order(&biguint.to_bytes_be()): the number reduced
\* into the field, whose modulus is above every number of the model.
from_be_bytes_mod_order(n) == n % 2147483647

\* PoseidonHasher::new
PoseidonHasher_new == [hasher |-> "Poseidon::new"]

\* PoseidonHasher::hash
PoseidonHasher_hash(self, inputs) ==
    LET poseidon_inputs ==
            [i \in 1..Len(inputs) |-> PoseidonFr_from_str(fr_to_string(inputs[i]))]
        result == Poseidon_hash(self.hasher,
                                [i \in 1..Len(inputs) |-> poseidon_inputs[i].val])
        result_biguint == parse_bytes(DecimalDigits(result.value))
    IN  IF \E i \in 1..Len(inputs) : ~poseidon_inputs[i].some
        THEN Err(ArkError)
        ELSE IF IsErr(result) THEN Err(ArkError)
        ELSE IF ~result_biguint.some THEN Err(ArkError)
        ELSE OkValue(from_be_bytes_mod_order(result_biguint.val))

\* PoseidonHasher::compute_commitment with score and salt exchanged.
PoseidonHasher_compute_commitment_swapped(self, score, salt, entity_hash) ==
    PoseidonHasher_hash(self, <<salt, score, entity_hash>>)

\* PoseidonHasher::compute_commitment: score is Fr::from(score).
PoseidonHasher_compute_commitment(self, score, salt, entity_hash) ==
    PoseidonHasher_hash(self, <<score, salt, entity_hash>>)

(***************************************************************************)
(* proof.rs: the proof, its binary form and the proof artifact.            *)
(***************************************************************************)
\* Proof::to_bytes: the compressed encodings of the points a, b and c.
Proof_to_bytes(proof) ==
    <<[point |-> "a", of |-> proof], [point |-> "b", of |-> proof],
      [point |-> "c", of |-> proof]>>

\* Groth16Proof::deserialize_compressed: three point encodings, in order.
deserialize_compressed(bytes) ==
    IF Len(bytes) = 3 /\ bytes[1].point = "a" /\ bytes[2].point = "b"
       /\ bytes[3].point = "c" /\ bytes[1].of = bytes[2].of
       /\ bytes[2].of = bytes[3].of
    THEN OkValue(bytes[1].of)
    ELSE Err([kind |-> "SerializationError"])

\* Proof::from_bytes: `?` turns a SerializationError into ArkError
\* (error.rs, impl From<ark_serialize::SerializationError>).
Proof_from_bytes(bytes) ==
    IF IsErr(deserialize_compressed(bytes))
    THEN Err(ArkError)
    ELSE deserialize_compressed(bytes)

\* ProofWithPublicInputs::new
ProofWithPublicInputs_new(proof, public_inputs, circuit) ==
    [proof |-> proof, public_inputs |-> public_inputs, circuit |-> circuit]

\* ProofWithPublicInputs::score_commitment returning the first element.
score_commitment_first(self) ==
    IF self.public_inputs = <<>> THEN None
    ELSE Some(self.public_inputs[1])

\* ProofWithPublicInputs::score_commitment: self.public_inputs.last()
score_commitment(self) ==
    IF self.public_inputs = <<>> THEN None
    ELSE Some(self.public_inputs[Len(self.public_inputs)])

(***************************************************************************)
(* proof.rs: the text encodings.  Here a proof is its three curve points:  *)
(* a and c in G1 with coordinates x and y, b in G2 with coordinates x and  *)
(* y of two components c0 and c1 each.                                     *)
(***************************************************************************)
\* Fr / Fq to_string(): the decimal digits of the element.
Fr_to_string(f) == ToString(f)

\* Proof::g1_to_strings
g1_to_strings(point) == <<Fr_to_string(point.x), Fr_to_string(point.y), "1">>

\* Proof::g2_to_strings
g2_to_strings(point) ==
    << <<Fr_to_string(point.x.c0), Fr_to_string(point.x.c1)>>,
       <<Fr_to_string(point.y.c0), Fr_to_string(point.y.c1)>>,
       <<"1", "0">> >>

\* Proof::to_json
Proof_to_json(self) ==
    OkValue([pi_a |-> g1_to_strings(self.inner.a),
             pi_b |-> g2_to_strings(self.inner.b),
             pi_c |-> g1_to_strings(self.inner.c),
             protocol |-> "groth16",
             curve |-> "bn128"])

\* Proof::g1_to_uint256
g1_to_uint256(point) == <<Fr_to_string(point.x), Fr_to_string(point.y)>>

\* Proof::g2_to_uint256 with the components in the order of g2_to_strings.
g2_to_uint256_unreversed(point) ==
    << <<Fr_to_string(point.x.c0), Fr_to_string(point.x.c1)>>,
       <<Fr_to_string(point.y.c0), Fr_to_string(point.y.c1)>> >>

\* Proof::g2_to_uint256
g2_to_uint256(point) ==
    << <<Fr_to_string(point.x.c1), Fr_to_string(point.x.c0)>>,
       <<Fr_to_string(point.y.c1), Fr_to_string(point.y.c0)>> >>

\* Proof::to_solidity_calldata
Proof_to_solidity_calldata(self, public_inputs) ==
    OkValue([a |-> g1_to_uint256(self.inner.a),
             b |-> g2_to_uint256(self.inner.b),
             c |-> g1_to_uint256(self.inner.c),
             inputs |-> [i \in 1..Len(public_inputs) |->
                            Fr_to_string(public_inputs[i])]])

(***************************************************************************)
(* verifier.rs.  Every operation returns its result together with the      *)
(* file-system work it did: [ret, fx].                                     *)
(***************************************************************************)
\* What serde_json reads from a well-formed verification_key.json.
VerificationKeyJson(circuit) == [protocol |-> "groth16", curve |-> "bn128"]

\* ComplianceVerifier::parse_verification_key
parse_verification_key(data) ==
    Err(SetupError("VKey parsing not fully implemented - protocol: "
                   \o data.protocol \o ", curve: " \o data.curve))

\* ComplianceVerifier::load_verification_key
load_verification_key(self, circuit) ==
    LET path == vkey_path(self.build_dir, file_name(circuit))
    IN  IF ~exists(path)
        THEN [ret |-> Err(CircuitNotFound(path)), fx |-> {"exists:" \o path}]
        ELSE IF path \in unreadable
        THEN [ret |-> Err(Io), fx |-> {"exists:" \o path, "read:" \o path}]
        ELSE IF path \in badjson
        THEN [ret |-> Err(Serialization),
              fx |-> {"exists:" \o path, "read:" \o path}]
        ELSE [ret |-> parse_verification_key(VerificationKeyJson(circuit)),
              fx |-> {"exists:" \o path, "read:" \o path}]

\* Groth16::verify(..).map_err(|e| ProverError::VerificationFailed { .. })
map_verification_failed(r) == IF IsErr(r) THEN Err(VerificationFailed) ELSE r

\* ComplianceVerifier::verify_proof
verify_proof(self, circuit, proof) ==
    LET vk == load_verification_key(self, circuit)
    IN  IF IsErr(vk.ret)
        THEN vk
        ELSE [ret |-> map_verification_failed(
                          Groth16_verify(vk.ret.value, proof.public_inputs,
                                         proof.proof)),
              fx |-> vk.fx]

\* verify_threshold without the comparison of the circuit tag.
verify_threshold_unchecked(self, proof) == verify_proof(self, "Threshold", proof)

\* ComplianceVerifier::verify_threshold
verify_threshold(self, proof) ==
    IF proof.circuit # file_name("Threshold")
    THEN [ret |-> Err(InvalidProofFormat("Expected threshold proof, got "
                                         \o proof.circuit)),
          fx |-> {}]
    ELSE verify_proof(self, "Threshold", proof)

\* ComplianceVerifier::verify_range
verify_range(self, proof) ==
    IF proof.circuit # file_name("Range")
    THEN [ret |-> Err(InvalidProofFormat("Expected range proof, got "
                                         \o proof.circuit)),
          fx |-> {}]
    ELSE verify_proof(self, "Range", proof)

\* verify_tier without the comparison of the circuit tag.
verify_tier_unchecked(self, proof) == verify_proof(self, "Tier", proof)

\* ComplianceVerifier::verify_tier
verify_tier(self, proof) ==
    IF proof.circuit # file_name("Tier")
    THEN [ret |-> Err(InvalidProofFormat("Expected tier proof, got "
                                         \o proof.circuit)),
          fx |-> {}]
    ELSE verify_proof(self, "Tier", proof)

\* ComplianceVerifier::verify_raw
verify_raw(self, circuit, proof_bytes, public_inputs) ==
    LET proof == Proof_from_bytes(proof_bytes)
        vk == load_verification_key(self, circuit)
    IN  IF IsErr(proof)
        THEN [ret |-> proof, fx |-> {}]
        ELSE IF IsErr(vk.ret)
        THEN vk
        ELSE [ret |-> map_verification_failed(
                          Groth16_verify(vk.ret.value, public_inputs,
                                         proof.value)),
              fx |-> vk.fx]

(***************************************************************************)
(* The statement inputs the callers pass.                                  *)
(***************************************************************************)
ThresholdInput(threshold, entity_hash, score, salt) ==
    [threshold |-> threshold, entity_hash |-> entity_hash, score |-> score,
     salt |-> salt]

RangeInput(min_score, max_score, entity_hash, score, salt) ==
    [min_score |-> min_score, max_score |-> max_score,
     entity_hash |-> entity_hash, score |-> score, salt |-> salt]

TierInput(target_tier, entity_hash, score, salt) ==
    [target_tier |-> target_tier, entity_hash |-> entity_hash, score |-> score,
     salt |-> salt]

\* "123456789" and "987654321", the strings of the crate's tests
HashDecimal == <<"1", "2", "3", "4", "5", "6", "7", "8", "9">>
SaltDecimal == <<"9", "8", "7", "6", "5", "4", "3", "2", "1">>
\* a string that is no decimal number
HashText == <<"a", "b", "c">>
\* seven ASCII characters and a two-byte one: byte offset 8 is inside it
HashMultiByte == <<"1", "2", "3", "4", "5", "6", "7", "U+00E9">>

\* The inputs of the prove calls: one that validates and one for each way
\* validation fails, per statement kind.
ThresholdInputs ==
    {ThresholdInput(8000, HashDecimal, 8500, SaltDecimal),
     ThresholdInput(8000, HashMultiByte, 8500, SaltDecimal),
     ThresholdInput(8000, HashDecimal, 7999, SaltDecimal),
     ThresholdInput(8000, HashDecimal, 10001, SaltDecimal),
     ThresholdInput(10001, HashDecimal, 9000, SaltDecimal)}

RangeInputs ==
    {RangeInput(7000, 9000, HashDecimal, 8000, SaltDecimal),
     RangeInput(7000, 9000, HashDecimal, 6999, SaltDecimal),
     RangeInput(9000, 7000, HashDecimal, 8000, SaltDecimal),
     RangeInput(7000, 9000, HashDecimal, 10001, SaltDecimal)}

TierInputs ==
    {TierInput(3, HashDecimal, 7999, SaltDecimal),
     TierInput(3, HashDecimal, 6999, SaltDecimal),
     TierInput(3, HashDecimal, 10001, SaltDecimal),
     TierInput(6, HashDecimal, 7999, SaltDecimal)}

(***************************************************************************)
(* prover.rs: the prove calls.                                             *)
(***************************************************************************)
ProveOps == {"prove_threshold", "prove_range", "prove_tier"}
VerifyOps == {"verify_threshold", "verify_range", "verify_tier"}

Idle(t) == pc[t] = "idle"

\* The calls in flight that have not run their setup yet, and the guard that
\* keeps the setup counter within MaxSetups.
BeforeSetup(circuit) ==
    {t \in Threads : pc[t] \in {"build", "setup"} /\ call[t].circuit = circuit}

CanStart(circuit) == setups[circuit] + Cardinality(BeforeSetup(circuit)) < MaxSetups

\* prove_entry with the `?` on validate() dropped: the result is ignored.
prove_entry_unvalidated(validated, entity_hash, tracing) ==
    IF tracing /\ LogPrefixPanics(entity_hash)
    THEN [ret |-> Panicked, go |-> FALSE]
    ELSE [ret |-> NoReturn, go |-> TRUE]

\* The head of prove_threshold / prove_range / prove_tier: `input.validate()?`
\* and then the info! line, whose arguments are evaluated when the event is
\* enabled.  Returns what the call returns here, or go to enter build_and_prove.
prove_entry(validated, entity_hash, tracing) ==
    IF IsErr(validated)
    THEN [ret |-> validated, go |-> FALSE]
    ELSE IF tracing /\ LogPrefixPanics(entity_hash)
    THEN [ret |-> Panicked, go |-> FALSE]
    ELSE [ret |-> NoReturn, go |-> TRUE]

Enter(t, op, circuit, input, validated, signals, tracing) ==
    LET e == prove_entry(validated, input.entity_hash, tracing)
    IN  /\ IsOk(prover)
        /\ Idle(t)
        /\ e.go => CanStart(circuit)
        /\ call' = [call EXCEPT ![t] =
                      [op |-> op, input |-> input, circuit |-> circuit,
                       inputs |-> IF e.go THEN signals ELSE <<>>, pk |-> None]]
        /\ pc' = [pc EXCEPT ![t] = IF e.go THEN "build" ELSE "idle"]
        /\ ret' = [ret EXCEPT ![t] = e.ret]
        /\ fx' = [fx EXCEPT ![t] = {}]
        /\ UNCHANGED <<disk, badjson, unreadable, prover, verifier, setups, probe>>

\* ComplianceProver::prove_threshold, up to the call of build_and_prove
ProveThreshold(t) ==
    \E input \in ThresholdInputs, tracing \in BOOLEAN :
        Enter(t, "prove_threshold", "Threshold", input,
              ThresholdInput_validate(input),
              ThresholdInput_to_circuit_input(input), tracing)

\* ComplianceProver::prove_range, up to the call of build_and_prove
ProveRange(t) ==
    \E input \in RangeInputs, tracing \in BOOLEAN :
        Enter(t, "prove_range", "Range", input, RangeInput_validate(input),
              RangeInput_to_circuit_input(input), tracing)

\* ComplianceProver::prove_tier, up to the call of build_and_prove
ProveTier(t) ==
    \E input \in TierInputs, tracing \in BOOLEAN :
        Enter(t, "prove_tier", "Tier", input, TierInput_validate(input),
              TierInput_to_circuit_input(input), tracing)

Return(t, r, effects) ==
    /\ pc' = [pc EXCEPT ![t] = "idle"]
    /\ ret' = [ret EXCEPT ![t] = r]
    /\ fx' = [fx EXCEPT ![t] = fx[t] \cup effects]

\* build_and_prove, first part: the .wasm check, CircomConfig::new and
\* CircomBuilder::build.  config_ok and witness_ok are the toolchain's
\* answers for the files' contents and the signal map.
BuildCircuit(t) ==
    \E config_ok \in BOOLEAN, witness_ok \in BOOLEAN :
        LET name == file_name(call[t].circuit)
            wasm == wasm_path(prover.value.build_dir, name)
            r1cs == r1cs_path(prover.value.build_dir, name)
        IN  /\ pc[t] = "build"
            /\ IF ~exists(wasm)
               THEN Return(t, Err(CircuitNotFound(wasm)), {"exists:" \o wasm})
               ELSE IF ~exists(r1cs) \/ ~config_ok
               THEN Return(t, Err(SetupError("CircomConfig")),
                           {"exists:" \o wasm, "read:" \o wasm, "read:" \o r1cs})
               ELSE IF ~witness_ok
               THEN Return(t, Err(WitnessError),
                           {"exists:" \o wasm, "read:" \o wasm, "read:" \o r1cs,
                            "witness"})
               ELSE /\ pc' = [pc EXCEPT ![t] = "setup"]
                    /\ fx' = [fx EXCEPT ![t] =
                                {"exists:" \o wasm, "read:" \o wasm,
                                 "read:" \o r1cs, "witness"}]
                    /\ UNCHANGED ret
            /\ UNCHANGED <<disk, badjson, unreadable, prover, verifier, call, setups, probe>>

\* Setup that also stores the proving key in the prover's slot of the
\* circuit.
Setup_caching(t) ==
    \E setup_ok \in BOOLEAN :
        LET c == call[t].circuit
            key == Some(<<c, setups[c] + 1>>)
        IN  /\ pc[t] = "setup"
            /\ setups' = [setups EXCEPT ![c] = @ + 1]
            /\ IF setup_ok
               THEN /\ pc' = [pc EXCEPT ![t] = "prove"]
                    /\ call' = [call EXCEPT ![t].pk = key]
                    /\ fx' = [fx EXCEPT ![t] = @ \cup {"setup"}]
                    /\ prover' = [prover EXCEPT !.value =
                          CASE c = "Threshold" -> [@ EXCEPT !.threshold_pk = key]
                            [] c = "Range" -> [@ EXCEPT !.range_pk = key]
                            [] c = "Tier" -> [@ EXCEPT !.tier_pk = key]]
                    /\ UNCHANGED ret
               ELSE /\ Return(t, Err(SetupError("circuit_specific_setup")),
                              {"setup"})
                    /\ UNCHANGED <<call, prover>>
            /\ UNCHANGED <<disk, badjson, unreadable, verifier, probe>>

\* build_and_prove, second part: Groth16::circuit_specific_setup.  The key
\* pair of every run is new; the verification key is dropped.
Setup(t) ==
    \E setup_ok \in BOOLEAN :
        LET c == call[t].circuit
        IN  /\ pc[t] = "setup"
            /\ setups' = [setups EXCEPT ![c] = @ + 1]
            /\ IF setup_ok
               THEN /\ pc' = [pc EXCEPT ![t] = "prove"]
                    /\ call' = [call EXCEPT ![t].pk = Some(<<c, setups[c] + 1>>)]
                    /\ fx' = [fx EXCEPT ![t] = @ \cup {"setup"}]
                    /\ UNCHANGED ret
               ELSE /\ Return(t, Err(SetupError("circuit_specific_setup")),
                              {"setup"})
                    /\ UNCHANGED call
            /\ UNCHANGED <<disk, badjson, unreadable, prover, verifier, probe>>

\* build_and_prove, last part: Groth16::prove, get_public_inputs and the
\* artifact, tagged with the circuit's file name.
GenerateProof(t) ==
    \E prove_ok \in BOOLEAN :
        LET circom == [circuit |-> call[t].circuit, inputs |-> call[t].inputs,
                       witness |-> TRUE]
            proof == Groth16_prove(call[t].pk.val, circom)
            public_inputs == get_public_inputs(circom)
        IN  /\ pc[t] = "prove"
            /\ IF ~prove_ok
               THEN Return(t, Err(ProofGenerationFailed), {"prove"})
               ELSE IF ~public_inputs.some
               THEN Return(t, Err(WitnessError), {"prove"})
               ELSE Return(t, OkValue(ProofWithPublicInputs_new(
                                  proof, public_inputs.val,
                                  file_name(call[t].circuit))),
                           {"prove"})
            /\ UNCHANGED <<disk, badjson, unreadable, prover, verifier, call, setups, probe>>

(***************************************************************************)
(* verifier.rs: the verify calls.  An artifact's fields are public, so a   *)
(* caller may pass an artifact it holds as returned, with its circuit tag  *)
(* overwritten, or with its public inputs replaced.                        *)
(***************************************************************************)
CircuitNames == {file_name(c) : c \in Circuit}

\* The artifacts some thread holds: returned by its last prove call or
\* passed to its last verify call.
Held ==
    {ret[u].value : u \in {v \in Threads : IsOk(ret[v]) /\ call[v].op \in ProveOps}}
    \cup {call[u].proof : u \in {v \in Threads : call[v].op \in VerifyOps}}

\* Public inputs of the same length that the proof was not made for.
Forged(public_inputs) == [i \in 1..Len(public_inputs) |-> 0]

Artifacts ==
    {[a EXCEPT !.circuit = tag] : a \in Held, tag \in CircuitNames}
    \cup {[a EXCEPT !.public_inputs = Forged(a.public_inputs)] : a \in Held}

\* What a caller passes to verify_raw for an artifact: the encoding of its
\* proof, whole or cut short, with the artifact's public inputs.
RawArguments ==
    {[proof_bytes |-> SubSeq(Proof_to_bytes(a.proof), 1, n),
      public_inputs |-> a.public_inputs] : a \in Artifacts, n \in 2..3}

Verified(t, c, r) ==
    /\ IsOk(verifier)
    /\ Idle(t)
    /\ call' = [call EXCEPT ![t] = c]
    /\ ret' = [ret EXCEPT ![t] = r.ret]
    /\ fx' = [fx EXCEPT ![t] = r.fx]
    /\ UNCHANGED <<disk, badjson, unreadable, prover, verifier, pc, setups, probe>>

VerifyThreshold(t) ==
    \E a \in Artifacts :
        Verified(t, [op |-> "verify_threshold", proof |-> a],
                 verify_threshold(verifier.value, a))

VerifyRange(t) ==
    \E a \in Artifacts :
        Verified(t, [op |-> "verify_range", proof |-> a],
                 verify_range(verifier.value, a))

VerifyTier(t) ==
    \E a \in Artifacts :
        Verified(t, [op |-> "verify_tier", proof |-> a],
                 verify_tier(verifier.value, a))

VerifyRaw(t) ==
    \E c \in Circuit, raw \in RawArguments :
        Verified(t, [op |-> "verify_raw", circuit |-> c,
                     proof_bytes |-> raw.proof_bytes,
                     public_inputs |-> raw.public_inputs],
                 verify_raw(verifier.value, c, raw.proof_bytes, raw.public_inputs))

(***************************************************************************)
(* The system: the prover and the verifier after construction, on one of   *)
(* the file systems, with every thread outside any call.                   *)
(***************************************************************************)
NoProbe == [fn |-> "none"]

InitSystem ==
    /\ disk \in DiskConfigs
    /\ \E state \in {"sound", "badjson", "unreadable"} :
          /\ badjson = IF state = "badjson" THEN VKeyFiles \cap disk ELSE {}
          /\ unreadable = IF state = "unreadable" THEN VKeyFiles \cap disk ELSE {}
    /\ prover = ComplianceProver_new(BuildDir)
    /\ verifier = ComplianceVerifier_new(BuildDir)
    /\ pc = [t \in Threads |-> "idle"]
    /\ call = [t \in Threads |-> [op |-> "none"]]
    /\ ret = [t \in Threads |-> NoReturn]
    /\ fx = [t \in Threads |-> {}]
    /\ setups = [c \in Circuit |-> 0]

Init == InitSystem /\ probe = NoProbe

ProveStep(t) ==
    \/ ProveThreshold(t)
    \/ ProveRange(t)
    \/ ProveTier(t)
    \/ BuildCircuit(t)
    \/ Setup(t)
    \/ GenerateProof(t)

VerifyStep(t) ==
    \/ VerifyThreshold(t)
    \/ VerifyRange(t)
    \/ VerifyTier(t)
    \/ VerifyRaw(t)

\* One caller using the whole interface, call after call.
MainThread == CHOOSE t \in Threads : \A u \in Threads : t <= u

Next == ProveStep(MainThread) \/ VerifyStep(MainThread)

Spec == Init /\ [][Next]_vars

\* Several callers proving on the shared prover, their calls interleaved.
\* Proving reads no verification key, so those files are left as they are.
InitConc ==
    /\ Init
    /\ disk \in {AllFiles, AllFiles \ {wasm_path(BuildDir, file_name(c)) : c \in Circuit}}
    /\ badjson = {}
    /\ unreadable = {}

NextConc == \E t \in Threads : ProveStep(t)

SpecConc == InitConc /\ [][NextConc]_vars

(***************************************************************************)
(* The system at rest, for the examination of the pure functions: probe    *)
(* holds a function's input and, once the function is applied, its output. *)
(***************************************************************************)
InitAtRest ==
    /\ InitSystem
    /\ disk = AllFiles
    /\ badjson = {}
    /\ unreadable = {}

Unprobed(fn) == probe.fn = fn /\ probe.out = NoReturn

Apply(out) ==
    /\ probe' = [probe EXCEPT !.out = out]
    /\ UNCHANGED <<disk, badjson, unreadable, prover, verifier, pc, call, ret, fx, setups>>

\* Scores and thresholds around the limits the code compares with.
ScoreValues == {0, 1, 7999, 8000, 8500, 9999, 10000, 10001, 15000}

HashValues == {HashDecimal, HashText, HashMultiByte, <<>>}
SaltValues == {SaltDecimal, HashText}

AllThresholdInputs ==
    {ThresholdInput(threshold, entity_hash, score, salt) :
        threshold \in ScoreValues, entity_hash \in HashValues,
        score \in ScoreValues, salt \in SaltValues}

TierValues == 0..6
TierScores == {0, 4999, 5000, 6999, 7000, 8499, 8500, 9499, 9500, 10000, 10001}

\* Range inputs over the same values for min_score, max_score and score.
AllRangeInputs ==
    {RangeInput(min_score, max_score, entity_hash, score, SaltDecimal) :
        min_score \in ScoreValues, max_score \in ScoreValues,
        entity_hash \in {HashDecimal, HashText}, score \in ScoreValues}

\* Tier inputs: target_tier is a u8, tiers 0 and 6 lie outside 1..=5; the
\* scores are the two ends of every tier's interval and the values next to
\* MAX_SCORE.
AllTierInputs ==
    {TierInput(target_tier, entity_hash, score, SaltDecimal) :
        target_tier \in TierValues, entity_hash \in {HashDecimal, HashText},
        score \in TierScores}

\* Strings for entity_hash and salt: decimal numbers, text, the empty
\* string, signs, underscores and leading zeros.
StringValues ==
    {HashDecimal, HashText, HashMultiByte, <<>>,
     <<"0", "0", "7">>, <<"1", "2", "a">>, <<"-", "5">>,
     <<"+", "5">>, <<"+">>, <<"+", "+", "5">>,
     <<"1", "_", "0">>, <<"_", "1">>}

\* The inputs whose signal maps are built: one statement that validates and
\* one that does not for each kind, with every pair of strings.
SignalInputs ==
    {[fn |-> "ThresholdInput::to_circuit_input",
      in |-> ThresholdInput(8000, entity_hash, score, salt), out |-> NoReturn] :
        entity_hash \in StringValues, score \in {7999, 8500},
        salt \in StringValues}
    \cup
    {[fn |-> "RangeInput::to_circuit_input",
      in |-> RangeInput(7000, 9000, entity_hash, score, salt), out |-> NoReturn] :
        entity_hash \in StringValues, score \in {6999, 8000},
        salt \in StringValues}
    \cup
    {[fn |-> "TierInput::to_circuit_input",
      in |-> TierInput(3, entity_hash, score, salt), out |-> NoReturn] :
        entity_hash \in StringValues, score \in {6999, 7000},
        salt \in StringValues}

InitValidate ==
    /\ InitAtRest
    /\ probe \in
         SignalInputs
         \cup
         {[fn |-> "ThresholdInput::validate", in |-> i, out |-> NoReturn] :
             i \in AllThresholdInputs}
         \cup
         {[fn |-> "RangeInput::validate", in |-> i, out |-> NoReturn] :
             i \in AllRangeInputs}
         \cup
         {[fn |-> "TierInput::validate", in |-> i, out |-> NoReturn] :
             i \in AllTierInputs}
         \cup
         {[fn |-> "TierInput::tier_bounds", in |-> tier, out |-> NoReturn] :
             tier \in TierValues}
         \cup
         {[fn |-> "TierCircuit::tier_bounds", in |-> tier, out |-> NoReturn] :
             tier \in TierValues}

ValidateThreshold ==
    /\ Unprobed("ThresholdInput::validate")
    /\ Apply(ThresholdInput_validate(probe.in))

ValidateRange ==
    /\ Unprobed("RangeInput::validate")
    /\ Apply(RangeInput_validate(probe.in))

ValidateTier ==
    /\ Unprobed("TierInput::validate")
    /\ Apply(TierInput_validate(probe.in))

TierBounds ==
    /\ Unprobed("TierInput::tier_bounds")
    /\ Apply(TierInput_tier_bounds(probe.in))

CircuitTierBounds ==
    /\ Unprobed("TierCircuit::tier_bounds")
    /\ Apply(TierCircuit_tier_bounds(probe.in))

ThresholdToCircuitInput ==
    /\ Unprobed("ThresholdInput::to_circuit_input")
    /\ Apply(ThresholdInput_to_circuit_input(probe.in))

RangeToCircuitInput ==
    /\ Unprobed("RangeInput::to_circuit_input")
    /\ Apply(RangeInput_to_circuit_input(probe.in))

TierToCircuitInput ==
    /\ Unprobed("TierInput::to_circuit_input")
    /\ Apply(TierInput_to_circuit_input(probe.in))

NextValidate ==
    \/ ValidateThreshold
    \/ ValidateRange
    \/ ValidateTier
    \/ TierBounds
    \/ CircuitTierBounds
    \/ ThresholdToCircuitInput
    \/ RangeToCircuitInput
    \/ TierToCircuitInput

SpecValidate == InitValidate /\ [][NextValidate]_vars


(***************************************************************************)
(* The native circuits, synthesized into a fresh constraint system as the  *)
(* crate's tests do: generate_constraints, then is_satisfied.              *)
(***************************************************************************)
\* Fr::from(123456789u64) and Fr::from(987654321u64), as in the tests
HashElement == 123456789
SaltElement == 987654321

RangeValues == {0, 6999, 7000, 8000, 9000, 9001, 10001}

InitCircuit ==
    /\ InitAtRest
    /\ probe \in
         {[fn |-> "ThresholdCircuit",
           in |-> ThresholdCircuit_new(threshold, HashElement, score, SaltElement),
           out |-> NoReturn] : threshold \in ScoreValues, score \in ScoreValues}
         \cup
         {[fn |-> "RangeCircuit",
           in |-> RangeCircuit_new(min_score, max_score, HashElement, score,
                                   SaltElement),
           out |-> NoReturn] :
              min_score \in RangeValues, max_score \in RangeValues,
              score \in RangeValues}
         \cup
         {[fn |-> "TierCircuit",
           in |-> TierCircuit_new(target_tier, HashElement, score, SaltElement),
           out |-> NoReturn] : target_tier \in TierValues, score \in TierScores}

Synthesized(cs) == [cs |-> cs, satisfied |-> is_satisfied(cs)]

SynthesizeThreshold ==
    /\ Unprobed("ThresholdCircuit")
    /\ Apply(Synthesized(ThresholdCircuit_generate_constraints(probe.in)))

SynthesizeRange ==
    /\ Unprobed("RangeCircuit")
    /\ Apply(Synthesized(RangeCircuit_generate_constraints(probe.in)))

SynthesizeTier ==
    /\ Unprobed("TierCircuit")
    /\ Apply(Synthesized(TierCircuit_generate_constraints(probe.in)))

NextCircuit == SynthesizeThreshold \/ SynthesizeRange \/ SynthesizeTier

SpecCircuit == InitCircuit /\ [][NextCircuit]_vars

(***************************************************************************)
(* The commitment hasher: the commitment of (score, salt, entity_hash)     *)
(* computed by one hasher, again by another one, for score + 1, and the    *)
(* hash of the list of the three, in any order.                            *)
(***************************************************************************)
CommitmentScores == {0, 1, 8499, 8500, 9999, 10000}
CommitmentElements == {0, 1, 8500, 8501, HashElement, SaltElement}

InitHash ==
    /\ InitAtRest
    /\ probe \in {[fn |-> "PoseidonHasher::compute_commitment",
                    in |-> [score |-> score, salt |-> salt,
                            entity_hash |-> entity_hash],
                    first |-> NoReturn, second |-> NoReturn,
                    next |-> NoReturn, hash |-> NoReturn] :
                      score \in CommitmentScores, salt \in CommitmentElements,
                      entity_hash \in CommitmentElements}

Hashing == probe.fn = "PoseidonHasher::compute_commitment"

Probed(p) ==
    /\ probe' = p
    /\ UNCHANGED <<disk, badjson, unreadable, prover, verifier, pc, call, ret, fx, setups>>

\* hasher.compute_commitment(score, &salt, &entity_hash)
ComputeCommitment ==
    /\ Hashing /\ probe.first = NoReturn
    /\ Probed([probe EXCEPT !.first =
                  PoseidonHasher_compute_commitment(
                      PoseidonHasher_new, probe.in.score, probe.in.salt,
                      probe.in.entity_hash)])

\* the same call on a second hasher
ComputeCommitmentAgain ==
    /\ Hashing /\ probe.first # NoReturn /\ probe.second = NoReturn
    /\ Probed([probe EXCEPT !.second =
                  PoseidonHasher_compute_commitment(
                      PoseidonHasher_new, probe.in.score, probe.in.salt,
                      probe.in.entity_hash)])

\* hasher.compute_commitment(score + 1, &salt, &entity_hash)
ComputeCommitmentNext ==
    /\ Hashing /\ probe.first # NoReturn /\ probe.next = NoReturn
    /\ Probed([probe EXCEPT !.next =
                  PoseidonHasher_compute_commitment(
                      PoseidonHasher_new, probe.in.score + 1, probe.in.salt,
                      probe.in.entity_hash)])

\* hasher.hash(&[Fr::from(score), salt, entity_hash])
HashList ==
    /\ Hashing /\ probe.first # NoReturn /\ probe.hash = NoReturn
    /\ Probed([probe EXCEPT !.hash =
                  PoseidonHasher_hash(PoseidonHasher_new,
                      <<probe.in.score, probe.in.salt, probe.in.entity_hash>>)])

NextHash ==
    ComputeCommitment \/ ComputeCommitmentAgain \/ ComputeCommitmentNext \/ HashList

SpecHash == InitHash /\ [][NextHash]_vars

(***************************************************************************)
(* The encodings of a proof: to_json and to_solidity_calldata applied, in  *)
(* either order, to one proof and one list of public inputs.               *)
(***************************************************************************)
G1Points == {[x |-> 11, y |-> 12], [x |-> 21, y |-> 22]}

G2Points ==
    {[x |-> [c0 |-> 31, c1 |-> 32], y |-> [c0 |-> 33, c1 |-> 34]],
     [x |-> [c0 |-> 41, c1 |-> 42], y |-> [c0 |-> 43, c1 |-> 43]]}

\* Proof::new for every choice of the three points.
Proofs == {[inner |-> [a |-> a, b |-> b, c |-> c]] :
             a \in G1Points, b \in G2Points, c \in G1Points}

\* Lists of public inputs: none, one, and several in both orders.
PublicInputLists ==
    {<<>>, <<8000>>, <<8000, 5>>, <<5, 8000>>, <<8000, 5, 77>>, <<77, 5, 8000>>}

InitEncode ==
    /\ InitAtRest
    /\ probe \in {[fn |-> "Proof::encode",
                    in |-> [proof |-> p, public_inputs |-> inputs],
                    json |-> NoReturn, calldata |-> NoReturn] :
                      p \in Proofs, inputs \in PublicInputLists}

ToJson ==
    /\ probe.fn = "Proof::encode" /\ probe.json = NoReturn
    /\ probe' = [probe EXCEPT !.json = Proof_to_json(probe.in.proof)]
    /\ UNCHANGED <<disk, badjson, unreadable, prover, verifier, pc, call, ret, fx, setups>>

ToSolidityCalldata ==
    /\ probe.fn = "Proof::encode" /\ probe.calldata = NoReturn
    /\ probe' = [probe EXCEPT !.calldata =
                    Proof_to_solidity_calldata(probe.in.proof,
                                               probe.in.public_inputs)]
    /\ UNCHANGED <<disk, badjson, unreadable, prover, verifier, pc, call, ret, fx, setups>>

NextEncode == ToJson \/ ToSolidityCalldata

SpecEncode == InitEncode /\ [][NextEncode]_vars

(***************************************************************************)
(* Properties.                                                             *)
(***************************************************************************)
\* What validate() answers for the input of a prove call.
ValidationOf(c) ==
    CASE c.op = "prove_threshold" -> ThresholdInput_validate(c.input)
      [] c.op = "prove_range" -> RangeInput_validate(c.input)
      [] c.op = "prove_tier" -> TierInput_validate(c.input)

\* The circuit a verify_* operation expects.
ExpectedCircuit(op) ==
    CASE op = "verify_threshold" -> "Threshold"
      [] op = "verify_range" -> "Range"
      [] op = "verify_tier" -> "Tier"

\* The verification key file of circuit c is there, can be read as text and
\* is well-formed JSON.
KeyFileSound(c) ==
    /\ vkey_path(BuildDir, file_name(c)) \in disk
    /\ vkey_path(BuildDir, file_name(c)) \notin unreadable
    /\ vkey_path(BuildDir, file_name(c)) \notin badjson

\* Artifact a carries the public inputs its proof was made for.
OwnInputs(a) == a.public_inputs = public_signals(a.proof.inputs)

\* C1: a prove call whose input fails validation returns exactly the
\* validation error, at once, having done no circuit work: no file check or
\* read, no witness generation, no setup, no proof generation.
C1_ValidationErrorFirst ==
    \A t \in Threads :
        (call[t].op \in ProveOps /\ IsErr(ValidationOf(call[t])))
        => /\ pc[t] = "idle"
           /\ ret[t] = ValidationOf(call[t])
           /\ fx[t] = {}

\* C1 witness: scenario C, prove_tier(target_tier = 3, score = 6999) has
\* returned InvalidInput(score) on a prover that has run a setup before.
C1_Witness ==
    \E t \in Threads :
        /\ call[t].op = "prove_tier"
        /\ call[t].input.target_tier = 3
        /\ call[t].input.score = 6999
        /\ ret[t] = Err(InvalidInput("score", "6999", "tier 3 range [7000, 8499]"))
        /\ \E c \in Circuit : setups[c] > 0

\* C2: scenario A: with the whole build directory in place, verify_threshold
\* of the untouched artifact of a successful prove_threshold returns Ok(true).
C2_ScenarioA ==
    \A t \in Threads :
        (/\ call[t].op = "verify_threshold"
         /\ call[t].proof.proof.circuit = "Threshold"
         /\ call[t].proof.circuit = file_name("Threshold")
         /\ OwnInputs(call[t].proof)
         /\ disk = AllFiles /\ badjson = {} /\ unreadable = {})
        => ret[t] = OkBool(TRUE)

\* C3: a well-formed proof of the matching kind that does not satisfy the
\* statement (its public inputs are not the ones it was made for) is
\* answered Ok(false), never an error, when the verification key file is
\* sound; for verify_threshold, verify_range, verify_tier and verify_raw.
C3_FalseProofIsOkFalse ==
    \A t \in Threads :
        /\ (/\ call[t].op \in VerifyOps
            /\ call[t].proof.circuit = file_name(ExpectedCircuit(call[t].op))
            /\ ~OwnInputs(call[t].proof)
            /\ KeyFileSound(ExpectedCircuit(call[t].op)))
           => ret[t] = OkBool(FALSE)
        /\ (/\ call[t].op = "verify_raw"
            /\ IsOk(Proof_from_bytes(call[t].proof_bytes))
            /\ call[t].public_inputs
                 # public_signals(Proof_from_bytes(call[t].proof_bytes).value.inputs)
            /\ KeyFileSound(call[t].circuit))
           => ret[t] = OkBool(FALSE)

\* C4: verify_threshold, verify_range and verify_tier answer an artifact
\* whose circuit tag is not the expected name with InvalidProofFormat,
\* whatever the key store holds, and before any key file is looked up.
C4_KindMismatch ==
    \A t \in Threads :
        (/\ call[t].op \in VerifyOps
         /\ call[t].proof.circuit # file_name(ExpectedCircuit(call[t].op)))
        => /\ IsErrKind(ret[t], "InvalidProofFormat")
           /\ fx[t] = {}

\* C4 witness: verify_tier has rejected an artifact tagged range_proof while
\* the verification key files are missing.
C4_Witness ==
    \E t \in Threads :
        /\ call[t].op = "verify_tier"
        /\ call[t].proof.circuit = "range_proof"
        /\ vkey_path(BuildDir, file_name("Tier")) \notin disk
        /\ ret[t] = Err(InvalidProofFormat("Expected tier proof, got range_proof"))

\* The artifact of a successful prove_threshold with its tag overwritten to
\* "range_proof" and nothing else changed.
RelabelledThreshold(a) ==
    /\ a.proof.circuit = "Threshold"
    /\ OwnInputs(a)
    /\ a.circuit = "range_proof"

\* C5 as claimed: scenario B: verify_range of the artifact of prove_threshold
\* with its tag overwritten to "range_proof" returns InvalidProofFormat.
C5_ScenarioB_Claimed ==
    \A t \in Threads :
        (call[t].op = "verify_range" /\ RelabelledThreshold(call[t].proof))
        => IsErrKind(ret[t], "InvalidProofFormat")

\* C5 amended: the artifact of prove_threshold with its tag overwritten to
\* "range_proof" is answered InvalidProofFormat by verify_threshold, before
\* any key lookup; verify_range finds the tag it expects, goes on to look up
\* the range verification key and does not answer InvalidProofFormat.
C5_ScenarioB_Amended ==
    \A t \in Threads :
        /\ (call[t].op = "verify_threshold" /\ RelabelledThreshold(call[t].proof))
           => /\ ret[t] = Err(InvalidProofFormat(
                                  "Expected threshold proof, got range_proof"))
              /\ fx[t] = {}
        /\ (call[t].op = "verify_range" /\ RelabelledThreshold(call[t].proof))
           => /\ ~IsErrKind(ret[t], "InvalidProofFormat")
              /\ ("exists:" \o vkey_path(BuildDir, file_name("Range"))) \in fx[t]

\* C5 witness: verify_threshold has been given the relabelled artifact.
C5_Witness ==
    \E t \in Threads :
        /\ call[t].op = "verify_threshold"
        /\ RelabelledThreshold(call[t].proof)
        /\ IsErrKind(ret[t], "InvalidProofFormat")

\* C6: over any sequence of prove calls on one prover the setup of a circuit
\* kind runs at most once.
C6_SetupAtMostOnce == \A c \in Circuit : setups[c] <= 1

\* C7: of the prove calls for one circuit kind that are in flight together,
\* at most one has run the setup.
C7_NoDuplicatedSetup ==
    \A t1 \in Threads, t2 \in Threads :
        (/\ t1 # t2
         /\ pc[t1] # "idle" /\ pc[t2] # "idle"
         /\ call[t1].circuit = call[t2].circuit)
        => ~(call[t1].pk.some /\ call[t2].pk.some)

\* The statement a native circuit is built from holds.
Consistent(fn, in) ==
    CASE fn = "ThresholdCircuit" ->
            in.threshold <= in.score /\ in.score <= MAX_SCORE
      [] fn = "RangeCircuit" ->
            /\ in.min_score <= in.max_score /\ in.max_score <= MAX_SCORE
            /\ in.min_score <= in.score /\ in.score <= in.max_score
      [] fn = "TierCircuit" ->
            /\ in.target_tier \in 1..5
            /\ TierInput_tier_bounds(in.target_tier)[1] <= in.score
            /\ in.score <= TierInput_tier_bounds(in.target_tier)[2]

\* The inconsistent witnesses the claim names.
Inconsistent(fn, in) ==
    CASE fn = "ThresholdCircuit" ->
            in.score = in.threshold - 1 \/ in.score > MAX_SCORE
      [] fn = "RangeCircuit" ->
            \/ in.score < in.min_score \/ in.score > in.max_score
            \/ in.min_score > in.max_score
      [] fn = "TierCircuit" ->
            /\ in.target_tier \in 1..5
            /\ \/ in.score < TierInput_tier_bounds(in.target_tier)[1]
               \/ in.score > TierInput_tier_bounds(in.target_tier)[2]

\* C8: the constraint system of a native circuit is satisfied when the
\* circuit is built from a valid statement and is not satisfied when it is
\* built from an inconsistent witness.
C8_CircuitsDecideTheStatement ==
    (probe.fn \in {"ThresholdCircuit", "RangeCircuit", "TierCircuit"}
     /\ probe.out # NoReturn)
    => /\ Consistent(probe.fn, probe.in) => probe.out.satisfied
       /\ Inconsistent(probe.fn, probe.in) => ~probe.out.satisfied

Validated == probe.fn = "ThresholdInput::validate" /\ probe.out # NoReturn

\* C9 as claimed: validate() succeeds for 0 <= threshold <= score <= 10000
\* and fails with ThresholdNotMet for every input with score < threshold.
C9_Claimed ==
    Validated
    => /\ (probe.in.threshold <= probe.in.score /\ probe.in.score <= MAX_SCORE)
          => probe.out = OkUnit
       /\ probe.in.score < probe.in.threshold
          => IsErrKind(probe.out, "ThresholdNotMet")

\* C9 amended: validate() succeeds for 0 <= threshold <= score <= 10000 and
\* fails with ThresholdNotMet for every input with score < threshold and
\* threshold <= 10000, for any entity_hash and salt.
C9_Amended ==
    Validated
    => /\ (probe.in.threshold <= probe.in.score /\ probe.in.score <= MAX_SCORE)
          => probe.out = OkUnit
       /\ (probe.in.score < probe.in.threshold /\ probe.in.threshold <= MAX_SCORE)
          => probe.out = Err(ThresholdNotMet(probe.in.score, probe.in.threshold))

\* C9 witness: score 7999 against threshold 8000, with an entity hash that is
\* no number, has been answered ThresholdNotMet.
C9_Witness ==
    /\ Validated
    /\ probe.in.score = 7999 /\ probe.in.threshold = 8000
    /\ probe.in.entity_hash = HashText
    /\ IsErrKind(probe.out, "ThresholdNotMet")

\* C10: validate() reports the first failing check in the order score >
\* 10000 (ScoreOutOfRange), threshold > 10000 (InvalidInput, field
\* "threshold"), score < threshold (ThresholdNotMet), and Ok otherwise.
C10_FirstFailingCheck ==
    Validated
    => LET score == probe.in.score
           threshold == probe.in.threshold
       IN  /\ score > MAX_SCORE => probe.out = Err(ScoreOutOfRange(score))
           /\ (score <= MAX_SCORE /\ threshold > MAX_SCORE)
              => /\ IsErrKind(probe.out, "InvalidInput")
                 /\ probe.out.err.field = "threshold"
           /\ (score <= MAX_SCORE /\ threshold <= MAX_SCORE /\ score < threshold)
              => probe.out = Err(ThresholdNotMet(score, threshold))
           /\ (score <= MAX_SCORE /\ threshold <= MAX_SCORE /\ score >= threshold)
              => probe.out = OkUnit

\* C10 witness: an input that fails all three checks (score 10001 against
\* threshold 15000) has been answered with the first one's error only.
C10_Witness ==
    /\ Validated
    /\ probe.in.score = 10001 /\ probe.in.threshold = 15000
    /\ probe.out = Err(ScoreOutOfRange(10001))

\* The function fn has been applied to the probed input.
Applied(fn) == probe.fn = fn /\ probe.out # NoReturn

\* The result is InvalidInput naming the given field.
IsInvalidInput(r, field) == IsErrKind(r, "InvalidInput") /\ r.err.field = field

\* C11 as claimed: RangeInput::validate() succeeds for min_score <= max_score
\* <= 10000 and min_score <= score <= max_score, and fails with InvalidInput
\* on field "score" for every input whose score is outside [min_score,
\* max_score].
C11_Claimed ==
    Applied("RangeInput::validate")
    => LET in == probe.in
       IN  /\ (/\ in.min_score <= in.max_score /\ in.max_score <= MAX_SCORE
               /\ in.min_score <= in.score /\ in.score <= in.max_score)
              => probe.out = OkUnit
           /\ (in.score < in.min_score \/ in.score > in.max_score)
              => IsInvalidInput(probe.out, "score")

\* C11 amended: validate() succeeds for min_score <= max_score <= 10000 and
\* min_score <= score <= max_score, and fails with InvalidInput on field
\* "score" for every input with score <= 10000 and min_score <= max_score
\* whose score is outside [min_score, max_score].
C11_Amended ==
    Applied("RangeInput::validate")
    => LET in == probe.in
       IN  /\ (/\ in.min_score <= in.max_score /\ in.max_score <= MAX_SCORE
               /\ in.min_score <= in.score /\ in.score <= in.max_score)
              => probe.out = OkUnit
           /\ (/\ in.score <= MAX_SCORE /\ in.min_score <= in.max_score
               /\ (in.score < in.min_score \/ in.score > in.max_score))
              => probe.out = Err(InvalidInput("score", ToString(in.score),
                                   "[" \o ToString(in.min_score) \o ", "
                                       \o ToString(in.max_score) \o "]"))

\* C11 witness: score 8000 at the lower end of [8000, 8500] has been
\* accepted.
C11_Witness ==
    /\ Applied("RangeInput::validate")
    /\ probe.in.min_score = 8000 /\ probe.in.max_score = 8500
    /\ probe.in.score = 8000
    /\ probe.out = OkUnit

\* C12: RangeInput::validate() reports the first failing check in the order
\* score > 10000 (ScoreOutOfRange), min_score > max_score (InvalidInput,
\* field "min_score"), score outside [min_score, max_score] (InvalidInput,
\* field "score"), and Ok otherwise.
C12_FirstFailingCheck ==
    Applied("RangeInput::validate")
    => LET in == probe.in
           outside == in.score < in.min_score \/ in.score > in.max_score
       IN  /\ in.score > MAX_SCORE
              => probe.out = Err(ScoreOutOfRange(in.score))
           /\ (in.score <= MAX_SCORE /\ in.min_score > in.max_score)
              => IsInvalidInput(probe.out, "min_score")
           /\ (in.score <= MAX_SCORE /\ in.min_score <= in.max_score /\ outside)
              => IsInvalidInput(probe.out, "score")
           /\ (in.score <= MAX_SCORE /\ in.min_score <= in.max_score /\ ~outside)
              => probe.out = OkUnit

\* C12 witness: an input that fails all three checks (score 10001, min_score
\* 15000 above max_score 8000) has been answered ScoreOutOfRange.
C12_Witness ==
    /\ Applied("RangeInput::validate")
    /\ probe.in.score = 10001
    /\ probe.in.min_score = 15000 /\ probe.in.max_score = 8000
    /\ probe.out = Err(ScoreOutOfRange(10001))

\* C13: every RangeInput that validate() accepts satisfies min_score <=
\* max_score <= MAX_SCORE and min_score <= score <= max_score.
C13_AcceptedRangeInvariant ==
    (Applied("RangeInput::validate") /\ probe.out = OkUnit)
    => /\ probe.in.min_score <= probe.in.max_score
       /\ probe.in.max_score <= MAX_SCORE
       /\ probe.in.min_score <= probe.in.score
       /\ probe.in.score <= probe.in.max_score

\* The table of tier intervals.
TierTable ==
    [t \in 1..5 |->
        CASE t = 1 -> <<9500, 10000>>
          [] t = 2 -> <<8500, 9499>>
          [] t = 3 -> <<7000, 8499>>
          [] t = 4 -> <<5000, 6999>>
          [] t = 5 -> <<0, 4999>>]

\* The tiers that accept the score of the probed input, each decided by
\* TierInput::validate.
AcceptingTiers(in) ==
    {t \in 1..5 : TierInput_validate([in EXCEPT !.target_tier = t]) = OkUnit}

\* C14: tier_bounds(t) is the table's interval for t in 1..=5; for t in
\* 1..=5 and a score in 0..=10000, validate() succeeds exactly when the
\* score is in tier t's interval; so every such score validates against
\* exactly one tier.
C14_TierTable ==
    /\ (Applied("TierInput::tier_bounds") /\ probe.in \in 1..5)
       => probe.out = TierTable[probe.in]
    /\ (/\ Applied("TierInput::validate")
        /\ probe.in.target_tier \in 1..5
        /\ probe.in.score \in 0..MAX_SCORE)
       => /\ probe.out = OkUnit
             <=> /\ TierTable[probe.in.target_tier][1] <= probe.in.score
                 /\ probe.in.score <= TierTable[probe.in.target_tier][2]
          /\ Cardinality(AcceptingTiers(probe.in)) = 1

\* C14 witness: score 9500, the first of tier 1, has been refused for tier
\* 2, whose interval ends at 9499.
C14_Witness ==
    /\ Applied("TierInput::validate")
    /\ probe.in.target_tier = 2 /\ probe.in.score = 9500
    /\ IsInvalidInput(probe.out, "score")
    /\ AcceptingTiers(probe.in) = {1}

\* C15: TierInput::validate() reports the first failing check in the order
\* target_tier outside 1..=5 (InvalidTier, also when score > 10000 and also
\* when the score is the fallback bound 0), score > 10000 (ScoreOutOfRange),
\* score outside the tier's interval (InvalidInput, field "score"), and Ok
\* otherwise.
C15_FirstFailingCheck ==
    Applied("TierInput::validate")
    => LET in == probe.in
           tiered == in.target_tier \in 1..5
           inside == /\ TierTable[in.target_tier][1] <= in.score
                     /\ in.score <= TierTable[in.target_tier][2]
       IN  /\ ~tiered => probe.out = Err(InvalidTier(in.target_tier))
           /\ (tiered /\ in.score > MAX_SCORE)
              => probe.out = Err(ScoreOutOfRange(in.score))
           /\ (tiered /\ in.score <= MAX_SCORE /\ ~inside)
              => IsInvalidInput(probe.out, "score")
           /\ (tiered /\ in.score <= MAX_SCORE /\ inside)
              => probe.out = OkUnit

\* C15 witness: tier 6 with score 10001 has been answered InvalidTier.
C15_Witness ==
    /\ Applied("TierInput::validate")
    /\ probe.in.target_tier = 6 /\ probe.in.score = 10001
    /\ probe.out = Err(InvalidTier(6))

\* The files the returned call of thread t needed: the circuit's .wasm,
\* .r1cs and proving key for a prove call whose input validated, and the
\* verification key for a verify call that got past the kind check or the
\* decoding of the proof bytes.
NeededFiles(t) ==
    IF pc[t] # "idle" \/ ret[t] \in {NoReturn, Panicked} THEN {}
    ELSE IF call[t].op \in ProveOps
    THEN IF IsErr(ValidationOf(call[t])) THEN {}
         ELSE {wasm_path(BuildDir, file_name(call[t].circuit)),
               r1cs_path(BuildDir, file_name(call[t].circuit)),
               zkey_path(BuildDir, file_name(call[t].circuit))}
    ELSE IF call[t].op \in VerifyOps
    THEN IF call[t].proof.circuit # file_name(ExpectedCircuit(call[t].op))
         THEN {}
         ELSE {vkey_path(BuildDir, file_name(ExpectedCircuit(call[t].op)))}
    ELSE IF call[t].op = "verify_raw"
    THEN IF IsErr(Proof_from_bytes(call[t].proof_bytes)) THEN {}
         ELSE {vkey_path(BuildDir, file_name(call[t].circuit))}
    ELSE {}

\* C16: when the build directory is missing the constructors fail with
\* CircuitNotFound carrying its path, and when a file a prove or verify call
\* needs (.wasm, .r1cs, proving key, verification key) is missing the call
\* fails with CircuitNotFound carrying that file's path.
C16_MissingFileIsCircuitNotFound ==
    /\ ~exists(BuildDir)
       => /\ prover = Err(CircuitNotFound(BuildDir))
          /\ verifier = Err(CircuitNotFound(BuildDir))
    /\ \A t \in Threads :
          \A path \in NeededFiles(t) :
              ~exists(path) => ret[t] = Err(CircuitNotFound(path))

\* C17: truncated or malformed proof bytes are rejected with the
\* InvalidProofFormat error kind, by Proof::from_bytes and by verify_raw,
\* which decodes its proof bytes with it.
C17_MalformedIsInvalidProofFormat ==
    \A t \in Threads :
        (/\ call[t].op = "verify_raw"
         /\ IsErr(deserialize_compressed(call[t].proof_bytes)))
        => /\ IsErrKind(Proof_from_bytes(call[t].proof_bytes), "InvalidProofFormat")
           /\ IsErrKind(ret[t], "InvalidProofFormat")

\* The two components of a pair, swapped.
Reversed(pair) == <<pair[2], pair[1]>>

\* C18: to_json gives pi_a = [a.x, a.y, "1"], pi_b = [[b.x.c0, b.x.c1],
\* [b.y.c0, b.y.c1], ["1", "0"]], pi_c = [c.x, c.y, "1"], protocol
\* "groth16" and curve "bn128"; to_solidity_calldata of the same proof gives
\* a and c equal to the first two entries of pi_a and pi_c, b[i] equal to
\* pi_b[i] with its two components reversed for the first two i, and the
\* public inputs in the order given.
C18_EncodingsRelated ==
    LET p == probe.in.proof.inner
        inputs == probe.in.public_inputs
    IN  /\ (probe.fn = "Proof::encode" /\ probe.json # NoReturn)
           => /\ IsOk(probe.json)
              /\ probe.json.value.pi_a = <<ToString(p.a.x), ToString(p.a.y), "1">>
              /\ probe.json.value.pi_b =
                    << <<ToString(p.b.x.c0), ToString(p.b.x.c1)>>,
                       <<ToString(p.b.y.c0), ToString(p.b.y.c1)>>,
                       <<"1", "0">> >>
              /\ probe.json.value.pi_c = <<ToString(p.c.x), ToString(p.c.y), "1">>
              /\ probe.json.value.protocol = "groth16"
              /\ probe.json.value.curve = "bn128"
        /\ (/\ probe.fn = "Proof::encode"
            /\ probe.json # NoReturn /\ probe.calldata # NoReturn)
           => LET json == probe.json.value
                  calldata == probe.calldata.value
              IN  /\ IsOk(probe.calldata)
                  /\ calldata.a = SubSeq(json.pi_a, 1, 2)
                  /\ calldata.c = SubSeq(json.pi_c, 1, 2)
                  /\ Len(calldata.b) = 2
                  /\ \A i \in 1..2 : calldata.b[i] = Reversed(json.pi_b[i])
                  /\ Len(calldata.inputs) = Len(inputs)
                  /\ \A i \in 1..Len(inputs) :
                        calldata.inputs[i] = ToString(inputs[i])

\* C18 witness: both encodings of a proof whose b has different c0 and c1
\* have been produced, with three public inputs.
C18_Witness ==
    /\ probe.fn = "Proof::encode"
    /\ probe.json # NoReturn /\ probe.calldata # NoReturn
    /\ probe.in.proof.inner.b.x.c0 # probe.in.proof.inner.b.x.c1
    /\ probe.in.public_inputs = <<77, 5, 8000>>
    /\ probe.calldata.value.b[1] = <<"32", "31">>
    /\ probe.json.value.pi_b[1] = <<"31", "32">>

\* The fixed circuit name of a prove operation's kind.
KindName(op) ==
    CASE op = "prove_threshold" -> "compliance_threshold"
      [] op = "prove_range" -> "range_proof"
      [] op = "prove_tier" -> "tier_membership"

\* Hash(score, salt, entity_hash) of a statement input, its decimal strings
\* read as field elements.
CommitmentOf(input) ==
    Poseidon(<<input.score, unwrap_or_zero(parse_bytes(input.salt)),
               unwrap_or_zero(parse_bytes(input.entity_hash))>>)

Parses(str) ==
    LET s == IF str # <<>> /\ Head(str) = "+" THEN Tail(str) ELSE str
    IN  /\ s # <<>>
        /\ Head(s) \in {"0", "1", "2", "3", "4", "5", "6", "7", "8", "9"}
        /\ \A i \in 1..Len(s) :
              s[i] \in {"0", "1", "2", "3", "4", "5", "6", "7", "8", "9", "_"}

\* The input with every string that does not parse replaced by "0".
Normalised(in) ==
    [in EXCEPT !.entity_hash = IF Parses(@) THEN @ ELSE <<"0">>,
               !.salt = IF Parses(@) THEN @ ELSE <<"0">>]

SignalFns ==
    {"ThresholdInput::to_circuit_input", "RangeInput::to_circuit_input",
     "TierInput::to_circuit_input"}

\* The signal names of each kind, in the toolchain's order.
SignalNames(fn) ==
    CASE fn = "ThresholdInput::to_circuit_input" ->
            <<"threshold", "entityHash", "score", "salt">>
      [] fn = "RangeInput::to_circuit_input" ->
            <<"minScore", "maxScore", "entityHash", "score", "salt">>
      [] fn = "TierInput::to_circuit_input" ->
            <<"targetTier", "entityHash", "score", "salt">>

\* to_circuit_input and validate of the kind the probe is about.
SignalMapOf(fn, in) ==
    CASE fn = "ThresholdInput::to_circuit_input" -> ThresholdInput_to_circuit_input(in)
      [] fn = "RangeInput::to_circuit_input" -> RangeInput_to_circuit_input(in)
      [] fn = "TierInput::to_circuit_input" -> TierInput_to_circuit_input(in)

ValidateOf(fn, in) ==
    CASE fn = "ThresholdInput::to_circuit_input" -> ThresholdInput_validate(in)
      [] fn = "RangeInput::to_circuit_input" -> RangeInput_validate(in)
      [] fn = "TierInput::to_circuit_input" -> TierInput_validate(in)

\* The value of the named signal in a signal map, 1-based position k.
ValueAt(map, k) == map[k][2][1]

\* C20: to_circuit_input() returns the signals of its kind in the fixed
\* order with the toolchain names, one value each; the numeric fields are
\* passed as they are; an entity_hash or salt that does not parse as an
\* unsigned decimal integer becomes 0, so the map equals the map of the same
\* input with those strings replaced by "0"; the strings raise no error in
\* validate() or at the head of the prove call, which returns an Err exactly
\* when the numeric fields fail validation.
C20_SignalMaps ==
    (probe.fn \in SignalFns /\ probe.out # NoReturn)
    => LET in == probe.in
           map == probe.out
           n == Len(SignalNames(probe.fn))
       IN  /\ Len(map) = n
           /\ \A i \in 1..n : map[i][1] = SignalNames(probe.fn)[i]
           /\ \A i \in 1..n : Len(map[i][2]) = 1
           /\ ValueAt(map, n - 1) = in.score
           /\ probe.fn = "ThresholdInput::to_circuit_input"
              => ValueAt(map, 1) = in.threshold
           /\ probe.fn = "RangeInput::to_circuit_input"
              => ValueAt(map, 1) = in.min_score /\ ValueAt(map, 2) = in.max_score
           /\ probe.fn = "TierInput::to_circuit_input"
              => ValueAt(map, 1) = in.target_tier
           /\ ~Parses(in.entity_hash) => ValueAt(map, n - 2) = 0
           /\ ~Parses(in.salt) => ValueAt(map, n) = 0
           /\ in.entity_hash = HashDecimal => ValueAt(map, n - 2) = 123456789
           /\ in.salt = <<"0", "0", "7">> => ValueAt(map, n) = 7
           /\ map = SignalMapOf(probe.fn, Normalised(in))
           /\ ValidateOf(probe.fn, in) = ValidateOf(probe.fn, Normalised(in))
           /\ \A tracing \in BOOLEAN :
                 LET e == prove_entry(ValidateOf(probe.fn, in), in.entity_hash,
                                      tracing)
                 IN  IsErr(e.ret) <=> IsErr(ValidateOf(probe.fn, Normalised(in)))

\* C20 witness: the signal map of a valid range input whose entity_hash is
\* text and whose salt is empty has been built, with 0 for both.
C20_Witness ==
    /\ probe.fn = "RangeInput::to_circuit_input" /\ probe.out # NoReturn
    /\ probe.in.entity_hash = HashText /\ probe.in.salt = <<>>
    /\ RangeInput_validate(probe.in) = OkUnit
    /\ probe.out = << <<"minScore", <<7000>> >>, <<"maxScore", <<9000>> >>,
                      <<"entityHash", <<0>> >>, <<"score", <<8000>> >>,
                      <<"salt", <<0>> >> >>

C22_ProveReturnsAResult ==
    \A t \in Threads :
        (call[t].op \in ProveOps /\ pc[t] = "idle")
        => /\ ret[t] # Panicked
           /\ IsOk(ret[t]) \/ IsErr(ret[t])

\* The prover and the verifier as their constructors return them.
FreshProver ==
    [build_dir |-> BuildDir, threshold_pk |-> None, range_pk |-> None,
     tier_pk |-> None]

FreshVerifier ==
    [build_dir |-> BuildDir, threshold_vk |-> None, range_vk |-> None,
     tier_vk |-> None]

\* What a verify call returns on a verifier that has served no call.
FirstCallResult(c) ==
    CASE c.op = "verify_threshold" -> verify_threshold(FreshVerifier, c.proof).ret
      [] c.op = "verify_range" -> verify_range(FreshVerifier, c.proof).ret
      [] c.op = "verify_tier" -> verify_tier(FreshVerifier, c.proof).ret
      [] c.op = "verify_raw" ->
            verify_raw(FreshVerifier, c.circuit, c.proof_bytes, c.public_inputs).ret

C24_TierPoliciesAgree ==
    Applied("TierCircuit::tier_bounds")
    => /\ probe.out = TierInput_tier_bounds(probe.in)
       /\ probe.in \notin 1..5 => probe.out = <<0, 0>>

\* C24 witness: the circuit's table has answered <<8500, 9499>> for tier 2,
\* whose ends the input side computes from TIER_2_MIN and TIER_1_MIN.
C24_Witness ==
    /\ Applied("TierCircuit::tier_bounds")
    /\ probe.in = 2
    /\ probe.out = <<TIER_2_MIN, TIER_1_MIN - 1>>

====
